---- MODULE Spec2Model ----
(***************************************************************************)
(* chopd: development reverse proxy.  State machine of the request         *)
(* pipeline of src/src/app.js: the /_chopin control router                 *)
(* (report-context, logs), the serialization queue of                      *)
(* src/src/middleware/request-queue.js and the queued-request handler.     *)
(*                                                                         *)
(* rq holds the requests (req, res pairs) that are in flight, under the     *)
(* number of their arrival at the proxy.  Every action is one              *)
(* run-to-completion step of the Node event loop: from the arrival of a    *)
(* request, or the completion of an awaited I/O, to the next await.        *)
(***************************************************************************)
EXTENDS Integers, Sequences, FiniteSets, TLC

\* ---- bounds of the model ----
\* Spec: HTTP requests that reach the proxy, and the report-context calls among them
MaxReq == 3
MaxCtl == 2
\* SpecQueue: the same, with more requests and fewer callbacks
MaxQReq == 4
MaxQCtl == 1
\* SpecLive: the same under fairness
MaxLReq == 3
MaxLCtl == 1
\* SpecId: the same, with a browser that logs in and out
MaxIReq == 4
MaxICtl == 1
\* SpecWire: the same, with the headers on the wire and clients that go away
MaxWReq == 3
MaxWCtl == 1
\* SpecMain: the start of the process; the longest command line
MaxArgs == 2
\* SpecRoute: the same, with requests for the paths under /_chopin
MaxRReq == 2
MaxRCtl == 1

\* ---- program constants ----
\* rawBody(req, { limit: '2mb' })
QueueLimit == 2097152
\* rawBody(req, { limit: '1mb' })
ReportLimit == 1048576
\* express.json() with its default limit, '100kb'
JsonLimit == 102400

queueMethods == {"POST", "PUT", "PATCH", "DELETE"}
ReportPath == "/_chopin/report-context"
StatusPath == "/_chopin/status"
MePath == "/_chopin/me"
LoginPath == "/_chopin/login"
LogoutPath == "/_chopin/logout"
\* a path under /_chopin for which the router has no route
UnknownPath == "/_chopin/unknown"
AppPath == "/slow"

\* ---- inputs ----
\* no requestId query parameter
NoId == 0
\* a requestId that was never issued
BogusId == 99
Methods == {"GET", "POST"}
CTypes == {"text/plain", "application/json"}
TargetStatuses == {201}

\* request bodies, by what the code looks at: size, JSON validity and whether
\* the bytes are well-formed UTF-8 ("xFF" is a byte that is not)
Size(b) ==
  CASE b = "" -> 0
    [] b = "a" -> 1
    [] b = "{}" -> 2
    [] b = "xFF" -> 1
    [] b = "B1" -> ReportLimit + 1
    [] b = "B2" -> QueueLimit + 1
    [] OTHER -> 1

\* express.json() in strict mode accepts objects and arrays only
ValidJson(b) == b = "{}"

VARIABLES
  isProcessing,   \* request-queue.js: let isProcessing
  requestQueue,   \* request-queue.js: const requestQueue (tasks, by request number)
  logs,           \* routes/chopin: const logs
  contextsMap,    \* routes/chopin: const contextsMap, requestId -> string[]
  rq,             \* the requests in flight: number of arrival -> req, res and position
  n,              \* requests that have reached the proxy so far
  nCtl,           \* report-context calls among them
  lastRes,        \* the response written last, and the request it answers
                  \* (xin: the x-address the client sent, xaddr: the one forwarded)
  lastRun,        \* history: the request for which handleQueuedRequest started last
  pushed,         \* history: requestId -> the calls that appended, in order of the pushes
  overlapped,     \* history: requestIds that had two report-context calls in flight
  client,         \* the browser: its dev-address cookie and the token of its last login
  proc            \* index.js: the process, its command line, its config file, its position

vars == <<isProcessing, requestQueue, logs, contextsMap, rq, n, nCtl, lastRes,
          lastRun, pushed, overlapped, client, proc>>

InFlight == DOMAIN rq

\* positions of a request in flight
InHandler == {"body", "fetch", "rejected", "stuck"}   \* inside the task of requestQueueMiddleware
InControl == {"json", "read", "hung"}        \* inside the /_chopin middleware chain

\* the ids made by crypto.randomUUID() so far
IssuedIds == DOMAIN pushed

SetMax(S) == IF S = {} THEN 0 ELSE CHOOSE m \in S : \A x \in S : x <= m

\* an id generator that gives out the id it gave last
FreshIdRepeated == IF IssuedIds = {} THEN 1 ELSE SetMax(IssuedIds)

\* crypto.randomUUID(): a value different from every id issued before
FreshId == SetMax(IssuedIds) + 1

\* ---- src/middleware/auth.js ----

\* the headers of a request that carries no identity
NoIdentity == [cookie |-> "", auth |-> <<>>, xaddr |-> ""]

\* no token
NoToken == [form |-> "", alg |-> "", sub |-> ""]

\* a token, by what jwt.verify looks at: whether it can be decoded, the
\* algorithm of its header and the sub claim of its payload ("" when it has none)
\* a login that signs its token with HS256
jwtSignHs(sub) == [form |-> "jwt", alg |-> "HS256", sub |-> sub]

\* jwt.sign({ sub: address }, '', { algorithm: 'none' })
jwtSign(sub) == [form |-> "jwt", alg |-> "none", sub |-> sub]
HsToken == [form |-> "jwt", alg |-> "HS256", sub |-> "0xB"]
Garbage == [form |-> "garbage", alg |-> "", sub |-> ""]

\* a verification that takes the payload of every token that can be decoded
jwtDecodeOnly(tok) ==
  IF tok.form = "jwt" THEN [ok |-> TRUE, sub |-> tok.sub] ELSE [ok |-> FALSE, sub |-> ""]

\* jwt.verify(token, '', { algorithms: ['none'] }): the payload, or a throw
jwtVerify(tok) ==
  IF tok.form = "jwt" /\ tok.alg = "none"
    THEN [ok |-> TRUE, sub |-> tok.sub] ELSE [ok |-> FALSE, sub |-> ""]

\* authHeader && authHeader.startsWith('Bearer '), and a token that verifies
\* with a sub claim; the header is the pair of its scheme and its token
BearerSub(h) ==
  IF h # <<>> /\ h[1] = "Bearer" /\ jwtVerify(h[2]).ok THEN jwtVerify(h[2]).sub ELSE ""

\* authMiddleware: the x-address header of the request behind the middleware
authMiddleware(h) ==
  LET fromCookie == IF h.cookie # "" THEN h.cookie ELSE h.xaddr
  IN IF BearerSub(h.auth) # "" THEN BearerSub(h.auth) ELSE fromCookie

\* router.get('/me'): the cookie first, then the token; "" is null
me(x) ==
  IF x.cookie # "" THEN x.cookie
  ELSE IF BearerSub(x.auth) # "" THEN BearerSub(x.auth) ELSE ""

\* the values of the as parameter: absent, an address in lowercase, an address
\* in uppercase, a value with a letter that is no hex digit, a value too short
AsValues == {"", "0xaa", "0xAA", "0xzz", "0xa"}

\* /^0x[0-9A-Fa-f]{40}$/.test(address), on the values of the as parameter
LoginRegex(a) == a \in {"0xaa", "0xAA"}

\* `0x${crypto.randomBytes(20).toString('hex')}`: hex digits in lowercase
RandomAddrs == {"0x11", "0x22"}

\* router.get('/login'): the address of the login
LoginAddress(a, rnd) == IF a = "" \/ ~LoginRegex(a) THEN rnd ELSE a

\* ---- src/src/app.js: the middleware chain ----

\* app.use("/_chopin", ...): the paths mounted under the control router
IsChopinPath(p) == p \in {ReportPath, StatusPath, MePath, UnknownPath}

\* express.json(): reads the body when the content type is JSON and there is one
UsesJsonParser(x) ==
  IsChopinPath(x.path) /\ x.ctype = "application/json" /\ Size(x.body) > 0

\* chopinRouter: the routes of the router that the model covers
RouterMatches(x) ==
  \/ x.method = "POST" /\ x.path = ReportPath
  \/ x.method = "GET" /\ x.path \in {StatusPath, MePath}

\* the route of the router that takes a request that matches
RouterRoute(x) ==
  IF x.path = ReportPath THEN "report" ELSE IF x.path = MePath THEN "me" ELSE "control"

\* a comparison of the Upgrade header that takes the case of its letters
ToLowerIdentity(h) == h

\* String.prototype.toLowerCase, on the values of the Upgrade header
ToLower(h) == IF h \in {"WebSocket", "WEBSOCKET"} THEN "websocket" ELSE h

\* req.headers.upgrade && req.headers.upgrade.toLowerCase() === 'websocket'
IsWebsocket(x) == x.upgrade # "" /\ ToLower(x.upgrade) = "websocket"

\* a queue that takes the requests of every method
QueuedAnyMethod(x) == ~IsWebsocket(x)

\* requestQueueMiddleware, lines 98-103: which requests the queue takes
Queued(x) == x.method \in queueMethods /\ ~IsWebsocket(x)

\* createApp with the queue middleware mounted in front of the control router
RouteQueueFirst(x) ==
  IF Queued(x) THEN "queue"
  ELSE IF IsChopinPath(x.path) /\ RouterMatches(x)
    THEN RouterRoute(x)
  ELSE "proxy"

\* createApp: the order of the mounted middleware decides who handles a request
Route(x) ==
  IF IsChopinPath(x.path) /\ RouterMatches(x)
    THEN RouterRoute(x)
  ELSE IF Queued(x) THEN "queue"
  ELSE "proxy"

\* ---- routes/chopin ----

\* Buffer.toString('utf8'): bytes that are not UTF-8 become U+FFFD
ToUtf8(b) == IF b = "xFF" THEN "uFFFD" ELSE b

\* readRawString: the outcomes of rawBody(req, { limit: '1mb' }) as a string.
\* On a stream that express.json() has read to its end, raw-body rejects
\* ("stream is not readable") or, in the releases without that test, waits
\* for an end event that does not come.
readRawString(x) ==
  IF Size(x.body) > ReportLimit THEN {[kind |-> "reject", str |-> ""]}
  ELSE IF x.consumed
    THEN {[kind |-> "reject", str |-> ""], [kind |-> "hang", str |-> ""]}
    ELSE {[kind |-> "ok", str |-> ToUtf8(x.body)]}

\* a handler that stores the string as the whole sequence of the id
PushContextReplaces(cm, id, str) == [cm EXCEPT ![id] = <<str>>]

\* arr.push(contextString)
PushContext(cm, id, str) == [cm EXCEPT ![id] = Append(@, str)]

\* router.get('/logs'): the log list merged with the contexts at read time
GetLogs ==
  [k \in 1..Len(logs) |->
     [entry |-> logs[k],
      contexts |-> IF logs[k].requestId \in DOMAIN contextsMap
                     THEN contextsMap[logs[k].requestId] ELSE <<>>]]

\* ---- middleware/request-queue.js ----

\* processNext that takes the task off the queue and does not call it
processNextNoCall(q) ==
  IF Len(q) > 0
    THEN [queue |-> Tail(q), run |-> 0, idle |-> FALSE]
    ELSE [queue |-> q, run |-> 0, idle |-> TRUE]

\* processNext: the task to start, or the flag to clear
processNext(q) ==
  IF Len(q) > 0
    THEN [queue |-> Tail(q), run |-> Head(q), idle |-> FALSE]
    ELSE [queue |-> q, run |-> 0, idle |-> TRUE]

\* the sequence is not created when the id is made
NewSequenceLater(cm, id) == cm

\* contextsMap.set(requestId, []): Map.set replaces the value of a key that exists
NewSequence(cm, id) == [k \in DOMAIN cm \cup {id} |-> IF k = id THEN <<>> ELSE cm[k]]

\* a catch handler that sends 500 without looking at res.headersSent
CatchStatusAlways(x) == 500

\* the catch handler of the task: res.sendStatus(500) unless headers were sent
CatchStatus(x) == IF ~x.sent THEN 500 ELSE x.status

\* logEntry; req is history: the number of arrival of the request it belongs to
LogEntry(x, st, err) ==
  [requestId |-> x.reqId, method |-> x.method, url |-> x.path,
   headers |-> [cookie |-> x.cookie, authorization |-> x.auth, xaddr |-> x.xaddr],
   body |-> ToUtf8(x.body), status |-> st, responseError |-> err, req |-> x.no,
   rbody |-> ""]

\* the body of the response of a target that says nothing else about it
PlainBody == "{}"

\* lines 74-79: the entry of a request whose fetch succeeded, with
\* response.status and response.body = targetBuf.toString('utf8')
ResponseEntry(x, st, tb) == [LogEntry(x, st, FALSE) EXCEPT !.rbody = ToUtf8(tb)]

\* an entry completed without the responseError field
ErrorEntryNoError(x) == LogEntry(x, 0, FALSE)

\* lines 66-67: the entry of a request whose fetch failed: responseError, no response
ErrorEntry(x) == LogEntry(x, 0, TRUE)

\* a response goes out and the request leaves the proxy
Drop(q, i) == [j \in DOMAIN q \ {i} |-> q[j]]
Written(x, st, by) ==
  [status |-> st, by |-> by, rid |-> x.rid, method |-> x.method, path |-> x.path,
   upgrade |-> x.upgrade, cookie |-> x.cookie, auth |-> x.auth, xin |-> x.xin,
   xaddr |-> x.xaddr, as |-> "", address |-> "", token |-> NoToken,
   setCookie |-> "", location |-> "", theaders |-> {}, headers |-> {},
   lost |-> x.gone, no |-> x.no, body |-> "", tstatus |-> 0, tbody |-> ""]

\* a processNext() that calls the head of the queue and leaves it there
ReleaseKeepsHead(flag, q) ==
  LET nx == processNext(requestQueue) IN
  /\ requestQueue' = requestQueue
  /\ isProcessing' = IF nx.idle THEN FALSE ELSE flag
  /\ rq' = IF nx.run = 0 THEN q ELSE [q EXCEPT ![nx.run].pc = "body"]
  /\ lastRun' = IF nx.run = 0 THEN lastRun ELSE nx.run

\* the effect of a processNext() call made with the flag at value flag and the
\* requests at q: fn() runs handleQueuedRequest up to its first await
Release(flag, q) ==
  LET nx == processNext(requestQueue) IN
  /\ requestQueue' = nx.queue
  /\ isProcessing' = IF nx.idle THEN FALSE ELSE flag
  /\ rq' = IF nx.run = 0 THEN q ELSE [q EXCEPT ![nx.run].pc = "body"]
  /\ lastRun' = IF nx.run = 0 THEN lastRun ELSE nx.run

\* requestQueueMiddleware, lines 105-119: run the task now or queue it
requestQueueMiddleware(i, q) ==
  /\ IF ~isProcessing
       THEN /\ isProcessing' = TRUE
            /\ rq' = [q EXCEPT ![i].pc = "body"]
            /\ lastRun' = i
            /\ UNCHANGED requestQueue
       ELSE /\ requestQueue' = Append(requestQueue, i)
            /\ rq' = [q EXCEPT ![i].pc = "waiting"]
            /\ UNCHANGED <<isProcessing, lastRun>>
  /\ UNCHANGED lastRes

\* router.post('/report-context'), up to the await
reportContext(i, q) ==
  /\ IF q[i].rid = NoId
       THEN rq' = Drop(q, i) /\ lastRes' = Written(q[i], 400, "report")
       ELSE IF q[i].rid \notin DOMAIN contextsMap
         THEN rq' = Drop(q, i) /\ lastRes' = Written(q[i], 404, "report")
         ELSE rq' = [q EXCEPT ![i].pc = "read"] /\ UNCHANGED lastRes
  /\ UNCHANGED <<isProcessing, requestQueue, lastRun>>

\* the chain behind express.json(): router, queue middleware, proxy
AfterJson(i, q) ==
  CASE Route(q[i]) = "report" -> reportContext(i, q)
    [] Route(q[i]) = "queue" -> requestQueueMiddleware(i, q)
    [] Route(q[i]) = "me" ->
         /\ rq' = Drop(q, i)
         /\ lastRes' = [Written(q[i], 200, "me") EXCEPT !.address = me(q[i])]
         /\ UNCHANGED <<isProcessing, requestQueue, lastRun>>
    [] Route(q[i]) = "control" ->
         /\ rq' = Drop(q, i)
         /\ lastRes' = Written(q[i], 200, "control")
         /\ UNCHANGED <<isProcessing, requestQueue, lastRun>>
    [] OTHER ->
         /\ rq' = Drop(q, i)
         /\ lastRes' = Written(q[i], 0, "proxy")
         /\ UNCHANGED <<isProcessing, requestQueue, lastRun>>

IsReportCall(x) == x.method = "POST" /\ x.path = ReportPath

\* the header names of a request that says nothing else about its headers
PlainRequest == [hdrs |-> {"host", "content-type"}]

\* req.headers behind authMiddleware: the names of the headers of request x
ReqHeaders(x) ==
  x.hdrs \cup (IF x.cookie # "" THEN {"cookie"} ELSE {})
         \cup (IF x.auth # <<>> THEN {"authorization"} ELSE {})
         \cup (IF x.xaddr # "" THEN {"x-address"} ELSE {})

\* forwardHeaders: a copy of req.headers without host, content-length and
\* transfer-encoding, with x-callback-url
forwardHeaders(x) ==
  (ReqHeaders(x) \ {"host", "content-length", "transfer-encoding"})
    \cup {"x-callback-url"}

\* the headers of the target's response that res.setHeader copies to the client
ResponseHeaders(th) == th \ {"transfer-encoding", "content-length", "connection"}

\* the headers of the response of a target that says nothing else about them
PlainResponse == {"content-type", "content-length"}

\* req and res of a request that cookieParser and authMiddleware have passed on
NewRequest(in, i) ==
  [no |-> i, method |-> in.method, path |-> in.path, upgrade |-> in.upgrade,
   ctype |-> in.ctype, body |-> in.body, rid |-> in.rid,
   cookie |-> (in @@ NoIdentity).cookie, auth |-> (in @@ NoIdentity).auth,
   xin |-> (in @@ NoIdentity).xaddr,
   xaddr |-> authMiddleware(in @@ NoIdentity), pc |-> "new", status |-> 0,
   sent |-> FALSE, reqId |-> NoId, cb |-> NoId, consumed |-> FALSE, await |-> 0,
   hdrs |-> (in @@ PlainRequest).hdrs, fwd |-> {}, gone |-> FALSE]

\* a request reaches the proxy and runs down the chain to its first await;
\* base is rq, with the note of the target that waits for this request if one does
Enter(in, base, maxN, maxC) ==
  LET i == n + 1
      q == base @@ (i :> NewRequest(in, i))
  IN /\ n < maxN
     /\ IsReportCall(in) => nCtl < maxC
     /\ n' = i
     /\ nCtl' = IF IsReportCall(in) THEN nCtl + 1 ELSE nCtl
     /\ overlapped' =
          IF IsReportCall(in) /\
             \E j \in InFlight : IsReportCall(rq[j]) /\ rq[j].rid = in.rid
            THEN overlapped \cup {in.rid} ELSE overlapped
     /\ IF UsesJsonParser(in)
          THEN /\ rq' = [q EXCEPT ![i].pc = "json"]
               /\ UNCHANGED <<isProcessing, requestQueue, lastRun, lastRes>>
          ELSE AfterJson(i, q)
     /\ UNCHANGED <<logs, contextsMap, pushed, client, proc>>

AppInputs ==
  {[method |-> "GET", path |-> AppPath, upgrade |-> u, ctype |-> "text/plain",
    body |-> "", rid |-> NoId] : u \in {"", "websocket"}}
  \cup {[method |-> "POST", path |-> AppPath, upgrade |-> u, ctype |-> "text/plain",
         body |-> "", rid |-> NoId] : u \in {"websocket", "WebSocket"}}
  \cup {[method |-> "POST", path |-> AppPath, upgrade |-> "", ctype |-> "text/plain",
         body |-> b, rid |-> NoId] : b \in {"a", "B2"}}

CtlBodies == {<<"text/plain", "a">>, <<"text/plain", "xFF">>, <<"text/plain", "B1">>,
              <<"application/json", "a">>, <<"application/json", "{}">>}

CtlInputs ==
  {[method |-> "POST", path |-> ReportPath, upgrade |-> "", ctype |-> cb[1],
    body |-> cb[2], rid |-> d] :
     cb \in CtlBodies, d \in {NoId, BogusId} \cup IssuedIds}

\* a client sends a request
Arrive(in, maxN, maxC) == Enter(in, rq, maxN, maxC)

\* GET /_chopin/login?as=...: the handler of router.get('/login'), and the
\* browser that stores the cookie and the token of the answer
Login(a, rnd, maxN) ==
  LET x == NewRequest([method |-> "GET", path |-> LoginPath, upgrade |-> "",
                       ctype |-> "text/plain", body |-> "", rid |-> NoId,
                       cookie |-> client.jar], n + 1)
      address == LoginAddress(a, rnd)
      token == jwtSign(address)
  IN /\ n < maxN
     /\ n' = n + 1
     /\ lastRes' = [Written(x, 200, "login") EXCEPT
                      !.as = a, !.address = address, !.token = token,
                      !.setCookie = address]
     /\ client' = [jar |-> address, token |-> token]
     /\ UNCHANGED <<isProcessing, requestQueue, logs, contextsMap, rq, nCtl, lastRun,
                    pushed, overlapped, proc>>

\* res.clearCookie('dev-address'); res.redirect('/'), without the clearCookie
LogoutResponseNoClear(x) ==
  [Written(x, 302, "logout") EXCEPT !.location = "/"]

\* res.clearCookie('dev-address'); res.redirect('/')
LogoutResponse(x) ==
  [Written(x, 302, "logout") EXCEPT !.setCookie = "clear", !.location = "/"]

\* the browser applies the Set-Cookie header of an answer to its cookie jar
ApplyCookie(jar, setCookie) ==
  IF setCookie = "clear" THEN "" ELSE IF setCookie # "" THEN setCookie ELSE jar

\* GET /_chopin/logout: the handler of router.get('/logout'), and the browser
\* that applies the cookie change of the answer (it keeps its token)
Logout(maxN) ==
  LET x == NewRequest([method |-> "GET", path |-> LogoutPath, upgrade |-> "",
                       ctype |-> "text/plain", body |-> "", rid |-> NoId,
                       cookie |-> client.jar], n + 1)
  IN /\ n < maxN
     /\ n' = n + 1
     /\ lastRes' = LogoutResponse(x)
     /\ client' = [client EXCEPT !.jar = ApplyCookie(client.jar, lastRes'.setCookie)]
     /\ UNCHANGED <<isProcessing, requestQueue, logs, contextsMap, rq, nCtl, lastRun,
                    pushed, overlapped, proc>>

\* the browser sends a request with its cookie only, or with its token only
ClientSends(m, p, kind, maxN, maxC) ==
  /\ kind = "token" => client.token # NoToken
  /\ Enter([method |-> m, path |-> p, upgrade |-> "", ctype |-> "text/plain",
            body |-> IF m = "GET" THEN "" ELSE "a", rid |-> NoId,
            cookie |-> IF kind = "cookie" THEN client.jar ELSE "",
            auth |-> IF kind = "token" THEN <<"Bearer", client.token>> ELSE <<>>,
            xaddr |-> ""],
           rq, maxN, maxC)

\* the target is not waiting for the answer to a callback: it made none, the
\* answer came, or its abort timer ended the wait for an answer that never comes
TargetReady(r) ==
  IF rq[r].await = 0 \/ rq[r].await \notin InFlight THEN TRUE
  ELSE rq[rq[r].await].pc = "hung"

\* the target of the request in flight posts to its x-callback-url and waits
TargetCallback(r, cb, maxN, maxC) ==
  /\ rq[r].pc = "fetch" /\ TargetReady(r)
  /\ Enter([method |-> "POST", path |-> ReportPath, upgrade |-> "",
            ctype |-> cb[1], body |-> cb[2], rid |-> rq[r].cb],
           [rq EXCEPT ![r].await = n + 1], maxN, maxC)

\* express.json() has read the body of request i
JsonDone(i) ==
  /\ rq[i].pc = "json"
  /\ IF Size(rq[i].body) > JsonLimit
       THEN /\ rq' = Drop(rq, i)
            /\ lastRes' = Written(rq[i], 413, "json")
            /\ UNCHANGED <<isProcessing, requestQueue, lastRun>>
       ELSE IF ~ValidJson(rq[i].body)
         THEN /\ rq' = Drop(rq, i)
              /\ lastRes' = Written(rq[i], 400, "json")
              /\ UNCHANGED <<isProcessing, requestQueue, lastRun>>
         ELSE AfterJson(i, [rq EXCEPT ![i].consumed = TRUE])
  /\ UNCHANGED <<logs, contextsMap, n, nCtl, pushed, overlapped, client, proc>>

\* router.post('/report-context'), after the await of readRawString
ReadDone(i) ==
  /\ rq[i].pc = "read"
  /\ \E r \in readRawString(rq[i]) :
       CASE r.kind = "ok" ->
              /\ contextsMap' = PushContext(contextsMap, rq[i].rid, r.str)
              /\ lastRes' = Written(rq[i], 200, "report")
              /\ pushed' = [pushed EXCEPT ![rq[i].rid] =
                              Append(@, [req |-> i, body |-> rq[i].body])]
              /\ rq' = Drop(rq, i)
         [] r.kind = "reject" ->
              /\ lastRes' = Written(rq[i], 400, "report")
              /\ rq' = Drop(rq, i)
              /\ UNCHANGED <<contextsMap, pushed>>
         [] OTHER ->
              /\ rq' = [rq EXCEPT ![i].pc = "hung"]
              /\ UNCHANGED <<contextsMap, pushed, lastRes>>
  /\ UNCHANGED <<isProcessing, requestQueue, logs, n, nCtl, lastRun, overlapped, client, proc>>

\* handleQueuedRequest, lines 31-63: the body is read, the id made, the fetch sent
BodyDone(i) ==
  /\ rq[i].pc = "body"
  /\ IF Size(rq[i].body) > QueueLimit
       THEN /\ rq' = [rq EXCEPT ![i].pc = "rejected"]
            /\ UNCHANGED <<contextsMap, pushed>>
       ELSE IF rq[i].consumed
         \* the stream was read by express.json(): rawBody rejects, or never settles
         THEN /\ \E to \in {"rejected", "stuck"} : rq' = [rq EXCEPT ![i].pc = to]
              /\ UNCHANGED <<contextsMap, pushed>>
       ELSE /\ contextsMap' = NewSequence(contextsMap, FreshId)
            /\ pushed' = NewSequence(pushed, FreshId)
            /\ rq' = [rq EXCEPT ![i].pc = "fetch", ![i].reqId = FreshId,
                                ![i].cb = FreshId, ![i].fwd = forwardHeaders(rq[i])]
  /\ UNCHANGED <<isProcessing, requestQueue, logs, n, nCtl, lastRes, lastRun, overlapped, client, proc>>

\* the socket of the client of request i closes while the fetch is under way:
\* handleQueuedRequest listens to no close or aborted event of req or res
ClientDisconnect(i) ==
  /\ rq[i].pc = "fetch" /\ ~rq[i].gone
  /\ rq' = [rq EXCEPT ![i].gone = TRUE]
  /\ UNCHANGED <<isProcessing, requestQueue, logs, contextsMap, n, nCtl, lastRes, lastRun,
                 pushed, overlapped, client, proc>>

\* a handler that gives up, without log entry and without processNext(), when
\* the client has gone
FetchOkUnlessGone(i, st, th, tb) ==
  /\ rq[i].pc = "fetch" /\ TargetReady(i)
  /\ IF rq[i].gone
       THEN /\ rq' = Drop(rq, i)
            /\ UNCHANGED <<logs, lastRes, isProcessing, requestQueue, lastRun>>
       ELSE /\ logs' = Append(logs, ResponseEntry(rq[i], st, tb))
            /\ lastRes' = [Written(rq[i], st, "queue") EXCEPT
                             !.theaders = th, !.headers = ResponseHeaders(th),
                             !.tstatus = st, !.tbody = tb, !.body = tb]
            /\ Release(isProcessing, Drop(rq, i))
  /\ UNCHANGED <<contextsMap, n, nCtl, pushed, overlapped, client, proc>>

\* handleQueuedRequest, lines 73-91: the target answered with status st and the
\* headers th and the body tb
FetchOk(i, st, th, tb) ==
  /\ rq[i].pc = "fetch" /\ TargetReady(i)
  /\ logs' = Append(logs, ResponseEntry(rq[i], st, tb))
  /\ lastRes' = [Written(rq[i], st, "queue") EXCEPT
                   !.theaders = th, !.headers = ResponseHeaders(th),
                   !.tstatus = st, !.tbody = tb, !.body = tb]
  /\ Release(isProcessing, Drop(rq, i))
  /\ UNCHANGED <<contextsMap, n, nCtl, pushed, overlapped, client, proc>>

\* handleQueuedRequest, lines 73-89: writing the response throws, before or
\* after the headers went out
WriteFail(i, st, sent) ==
  /\ rq[i].pc = "fetch" /\ TargetReady(i)
  /\ logs' = Append(logs, ResponseEntry(rq[i], st, PlainBody))
  /\ rq' = [rq EXCEPT ![i].pc = "rejected", ![i].sent = sent,
                      ![i].status = IF sent THEN st ELSE 0]
  /\ UNCHANGED <<isProcessing, requestQueue, contextsMap, n, nCtl, lastRes, lastRun,
                 pushed, overlapped, client, proc>>

\* a catch block without its return: after processNext() the handler goes on,
\* fails on the response that is not there, and the task's catch handler runs
FetchErrNoReturn(i) ==
  /\ rq[i].pc = "fetch"
  /\ logs' = Append(logs, ErrorEntry(rq[i]))
  /\ lastRes' = Written(rq[i], 502, "queue")
  /\ Release(isProcessing, [rq EXCEPT ![i].pc = "rejected", ![i].sent = TRUE])
  /\ UNCHANGED <<contextsMap, n, nCtl, pushed, overlapped, client, proc>>

\* handleQueuedRequest, lines 65-71: the fetch failed
FetchErr(i) ==
  /\ rq[i].pc = "fetch"
  /\ logs' = Append(logs, ErrorEntry(rq[i]))
  /\ lastRes' = Written(rq[i], 502, "queue")
  /\ Release(isProcessing, Drop(rq, i))
  /\ UNCHANGED <<contextsMap, n, nCtl, pushed, overlapped, client, proc>>

\* a catch handler that writes the failure into the entry of the request that
\* is already in the log
TaskCatchMarksEntry(i) ==
  /\ rq[i].pc = "rejected"
  /\ lastRes' = Written(rq[i], CatchStatus(rq[i]), "catch")
  /\ logs' = [k \in DOMAIN logs |->
                IF logs[k].req = i THEN [logs[k] EXCEPT !.responseError = TRUE]
                ELSE logs[k]]
  /\ Release(FALSE, Drop(rq, i))
  /\ UNCHANGED <<contextsMap, n, nCtl, pushed, overlapped, client, proc>>

\* requestQueueMiddleware, lines 105-112: the catch handler of the task
TaskCatch(i) ==
  /\ rq[i].pc = "rejected"
  /\ lastRes' = Written(rq[i], CatchStatus(rq[i]), "catch")
  /\ Release(FALSE, Drop(rq, i))
  /\ UNCHANGED <<logs, contextsMap, n, nCtl, pushed, overlapped, client, proc>>

\* ---- index.js, utils/args.js, utils/config.js, commands, process-manager ----

\* JavaScript values of the port expressions: a number, NaN, null, undefined,
\* or a string
Num(v) == [k |-> "num", v |-> v]
NaN == [k |-> "nan", v |-> 0]
Null == [k |-> "null", v |-> 0]
Undef == [k |-> "undef", v |-> 0]
Str == [k |-> "str", v |-> 0]

\* a value that || keeps: a number other than 0 and NaN
Truthy(x) == x.k = "num" /\ x.v # 0

\* a || b
JsOr(a, b) == IF Truthy(a) THEN a ELSE b

\* the tokens of the command lines
ArgTokens == {"4001", "3001", "0", "-5", "--help", "init", "serve", "constructor", "1e3"}

\* process.argv.slice(2)
Argvs == UNION {[1..k -> ArgTokens] : k \in 0..MaxArgs}

\* args[0].startsWith('-')
startsWithDash(t) == t \in {"-5", "--help"}

\* isNaN(args[0]): Number() of the token is NaN
isNaN(t) == t \in {"--help", "init", "serve", "constructor"}

\* parseInt(token, 10): the leading decimal digits, with sign
parseInt(t) ==
  CASE t = "4001" -> Num(4001)
    [] t = "3001" -> Num(3001)
    [] t = "0" -> Num(0)
    [] t = "-5" -> Num(0 - 5)
    [] t = "1e3" -> Num(1)
    [] OTHER -> NaN

\* parseArgs (command "" stands for null)
parseArgs(argv) ==
  IF Len(argv) > 0 /\ ~startsWithDash(argv[1]) /\ isNaN(argv[1])
    THEN [command |-> argv[1], proxyPort |-> Null, targetPort |-> Null]
    ELSE [command |-> "",
          proxyPort |-> IF Len(argv) > 0 THEN parseInt(argv[1]) ELSE Null,
          targetPort |-> IF Len(argv) > 1 THEN parseInt(argv[2]) ELSE Null]

\* commands[commandName]: init, or a property that the object inherits from
\* Object.prototype
HasCommand(name) == name \in {"init", "constructor"}

\* executeCommand and the exit that follows it in index.js: the exit code.
\* init() itself exits with 1 when it cannot read the version or install.
executeCommand(name, initOk) ==
  IF HasCommand(name)
    THEN IF name = "init" /\ ~initOk THEN 1 ELSE 0
    ELSE 1

\* chopin.config.json: absent, not JSON, or an object with these fields
\* (version "" and command "<absent>": the field is not there)
GoodFile ==
  [kind |-> "json", version |-> "0.1.0", command |-> "npm run dev",
   proxyPort |-> Num(4500), targetPort |-> Num(3500), extra |-> FALSE]
NoFile == [GoodFile EXCEPT !.kind = "none"]
ConfigFiles ==
  {NoFile, [GoodFile EXCEPT !.kind = "garbage"], GoodFile,
   [GoodFile EXCEPT !.proxyPort = Undef, !.targetPort = Undef],
   [GoodFile EXCEPT !.version = ""],
   [GoodFile EXCEPT !.version = "0.1.1"],
   [GoodFile EXCEPT !.version = "0.2.0"],
   [GoodFile EXCEPT !.version = "abc"],
   [GoodFile EXCEPT !.command = "<absent>"],
   [GoodFile EXCEPT !.command = ""],
   [GoodFile EXCEPT !.proxyPort = Num(0)],
   [GoodFile EXCEPT !.targetPort = Num(65536)],
   [GoodFile EXCEPT !.targetPort = Str],
   [GoodFile EXCEPT !.extra = TRUE]}

\* semver accepts the version string
semverValid(v) == v \in {"0.1.0", "0.1.1", "0.2.0"}

\* isVersionCompatible: >= 0.1.0 and ^0.1.0
isVersionCompatible(v) == v \in {"0.1.0", "0.1.1"}

\* fs.existsSync(getSchemaPath(version)): schemas/ holds schema_0.1.0.json
schemaExists(v) == v = "0.1.0"

\* a port of the schema: number, 1..65535
portValid(x) == x.k = "undef" \/ (x.k = "num" /\ x.v >= 1 /\ x.v <= 65535)

\* a loader whose validation looks at the command only
validateCommandOnly(c) == c.command \notin {"<absent>", ""}

\* ajv validate(config) against schema_0.1.0.json
validate(c) ==
  /\ c.command \notin {"<absent>", ""}
  /\ portValid(c.proxyPort) /\ portValid(c.targetPort)
  /\ ~c.extra

\* loadConfig: process.exit(1), or the config (null: kind "none")
loadConfig(file) ==
  LET c == [file EXCEPT !.version = IF @ = "" THEN "0.1.0" ELSE @] IN
  IF file.kind = "none" THEN [exit |-> FALSE, config |-> NoFile]
  ELSE IF file.kind = "garbage" THEN [exit |-> TRUE, config |-> NoFile]
  ELSE IF ~semverValid(c.version) THEN [exit |-> TRUE, config |-> NoFile]
  ELSE IF ~isVersionCompatible(c.version) THEN [exit |-> TRUE, config |-> NoFile]
  ELSE IF ~schemaExists(c.version) THEN [exit |-> TRUE, config |-> NoFile]
  ELSE IF ~validate(c) THEN [exit |-> TRUE, config |-> NoFile]
  ELSE [exit |-> FALSE, config |-> c]

\* config?.proxyPort and config?.targetPort
ConfigPort(c, which) ==
  IF c.kind = "none" THEN Undef ELSE IF which = "proxy" THEN c.proxyPort ELSE c.targetPort

\* the process that serves: started without arguments and without config file
Serving ==
  [pc |-> "listening", argv |-> <<>>, file |-> NoFile, initOk |-> TRUE,
   args |-> parseArgs(<<>>), config |-> NoFile, proxyPort |-> Num(4000),
   targetPort |-> Num(3000), spawned |-> FALSE, code |-> 0]

\* the process at its start
Starts ==
  {[Serving EXCEPT !.pc = "start", !.argv = a, !.file = f, !.initOk = ok,
                   !.proxyPort = Null, !.targetPort = Null] :
     a \in Argvs, f \in ConfigFiles, ok \in BOOLEAN}

AppUnchanged ==
  UNCHANGED <<isProcessing, requestQueue, logs, contextsMap, rq, n, nCtl, lastRes,
              lastRun, pushed, overlapped, client>>

\* index.js: parseArgs, and the command when there is one
MainCommand ==
  LET args == parseArgs(proc.argv) IN
  /\ proc.pc = "start"
  /\ proc' = IF args.command # ""
               THEN [proc EXCEPT !.pc = "exit", !.args = args,
                                 !.code = executeCommand(args.command, proc.initOk)]
               ELSE [proc EXCEPT !.pc = "load", !.args = args]
  /\ AppUnchanged

\* index.js: loadConfig() and the ports
MainConfig ==
  LET r == loadConfig(proc.file) IN
  /\ proc.pc = "load"
  /\ proc' = IF r.exit
               THEN [proc EXCEPT !.pc = "exit", !.code = 1]
               ELSE [proc EXCEPT
                       !.pc = "spawn", !.config = r.config,
                       !.proxyPort = JsOr(proc.args.proxyPort,
                                          JsOr(ConfigPort(r.config, "proxy"), Num(4000))),
                       !.targetPort = JsOr(proc.args.targetPort,
                                           JsOr(ConfigPort(r.config, "target"), Num(3000)))]
  /\ AppUnchanged

\* startTargetProcess(config): spawn when there is a config with a command
startTargetProcess ==
  /\ proc.pc = "spawn"
  /\ proc' = [proc EXCEPT !.pc = "listen", !.spawned = proc.config.kind # "none"]
  /\ AppUnchanged

\* app.listen(PROXY_PORT): a port outside 0..65535 throws, the process ends
\* with an uncaught exception
MainListen ==
  /\ proc.pc = "listen"
  /\ proc' = IF proc.proxyPort.v >= 0 /\ proc.proxyPort.v <= 65535
               THEN [proc EXCEPT !.pc = "listening"]
               ELSE [proc EXCEPT !.pc = "exit", !.code = 1]
  /\ AppUnchanged

InitApp ==
  /\ isProcessing = FALSE
  /\ requestQueue = <<>>
  /\ logs = <<>>
  /\ contextsMap = <<>>
  /\ rq = <<>>
  /\ n = 0
  /\ nCtl = 0
  /\ lastRes = [status |-> 0, by |-> "none", rid |-> NoId, method |-> "",
                path |-> "", upgrade |-> "", cookie |-> "", auth |-> <<>>,
                xin |-> "", xaddr |-> "", as |-> "", address |-> "",
                token |-> NoToken, setCookie |-> "", location |-> "",
                theaders |-> {}, headers |-> {}, lost |-> FALSE, no |-> 0,
                body |-> "", tstatus |-> 0, tbody |-> ""]
  /\ client = [jar |-> "", token |-> NoToken]
  /\ lastRun = 0
  /\ pushed = <<>>
  /\ overlapped = {}

Init == InitApp /\ proc = Serving

\* the start of the process, for every command line and config file
InitMain == InitApp /\ proc \in Starts

NextMain ==
  \/ MainCommand
  \/ MainConfig
  \/ startTargetProcess
  \/ MainListen

SpecMain == InitMain /\ [][NextMain]_vars

\* the callbacks a target makes: one that is stored, one that is not
TargetBodies == {<<"text/plain", "a">>, <<"application/json", "{}">>}

Next ==
  \/ \E in \in AppInputs \cup CtlInputs : Arrive(in, MaxReq, MaxCtl)
  \/ \E r \in InFlight, cb \in TargetBodies : TargetCallback(r, cb, MaxReq, MaxCtl)
  \/ \E i \in InFlight : JsonDone(i)
  \/ \E i \in InFlight : ReadDone(i)
  \/ \E i \in InFlight : BodyDone(i)
  \/ \E i \in InFlight, st \in TargetStatuses : FetchOk(i, st, PlainResponse, PlainBody)
  \/ \E i \in InFlight, st \in TargetStatuses, s \in BOOLEAN : WriteFail(i, st, s)
  \/ \E i \in InFlight : FetchErr(i)
  \/ \E i \in InFlight : TaskCatch(i)

Spec == Init /\ [][Next]_vars

\* the same program with requests for the paths under /_chopin
RouteInputs ==
  {[method |-> "GET", path |-> p, upgrade |-> "", ctype |-> "text/plain",
    body |-> "", rid |-> NoId] : p \in {AppPath, StatusPath, UnknownPath}}
  \cup {[method |-> "POST", path |-> p, upgrade |-> "", ctype |-> "text/plain",
         body |-> "a", rid |-> NoId] : p \in {AppPath, StatusPath, UnknownPath}}
  \cup {[method |-> "POST", path |-> UnknownPath, upgrade |-> "",
         ctype |-> "application/json", body |-> "{}", rid |-> NoId]}

\* requests with a dev-address cookie, an Authorization header, both or none
IdInputs ==
  {[method |-> m, path |-> AppPath, upgrade |-> "", ctype |-> "text/plain",
    body |-> IF m = "GET" THEN "" ELSE "a", rid |-> NoId, cookie |-> h[1],
    auth |-> h[2], xaddr |-> h[3]] :
     m \in {"GET", "POST"},
     h \in {<<"", <<>>, "">>,
            <<"0xC", <<>>, "">>,
            <<"", <<"Bearer", jwtSign("0xB")>>, "">>,
            <<"0xC", <<"Bearer", jwtSign("0xB")>>, "">>,
            <<"0xC", <<"Bearer", HsToken>>, "">>,
            <<"", <<"Bearer", jwtSign("")>>, "">>,
            <<"", <<"Bearer", Garbage>>, "0xE">>,
            <<"", <<>>, "0xE">>}}

\* GET /_chopin/me with and without cookie and token
MeInputs ==
  {[method |-> "GET", path |-> MePath, upgrade |-> "", ctype |-> "text/plain",
    body |-> "", rid |-> NoId, cookie |-> c, auth |-> a, xaddr |-> ""] :
     c \in {"", "0xC"},
     a \in {<<>>, <<"Bearer", jwtSign("0xB")>>, <<"Bearer", HsToken>>}}

NextRoute ==
  \/ \E in \in RouteInputs \cup IdInputs \cup MeInputs : Arrive(in, MaxRReq, MaxRCtl)
  \/ \E r \in InFlight, cb \in TargetBodies : TargetCallback(r, cb, MaxRReq, MaxRCtl)
  \/ \E i \in InFlight : JsonDone(i)
  \/ \E i \in InFlight : ReadDone(i)
  \/ \E i \in InFlight : BodyDone(i)
  \/ \E i \in InFlight, st \in TargetStatuses : FetchOk(i, st, PlainResponse, PlainBody)
  \/ \E i \in InFlight, st \in TargetStatuses, s \in BOOLEAN : WriteFail(i, st, s)
  \/ \E i \in InFlight : FetchErr(i)
  \/ \E i \in InFlight : TaskCatch(i)

SpecRoute == Init /\ [][NextRoute]_vars

\* the same program with a browser that logs in and sends requests
ClientRequests == {<<"POST", AppPath>>, <<"GET", AppPath>>, <<"GET", MePath>>}

NextId ==
  \/ \E a \in AsValues, rnd \in RandomAddrs : Login(a, rnd, MaxIReq)
  \/ Logout(MaxIReq)
  \/ \E mp \in ClientRequests, kind \in {"cookie", "token"} :
       ClientSends(mp[1], mp[2], kind, MaxIReq, MaxICtl)
  \/ \E r \in InFlight, cb \in TargetBodies : TargetCallback(r, cb, MaxIReq, MaxICtl)
  \/ \E i \in InFlight : JsonDone(i)
  \/ \E i \in InFlight : ReadDone(i)
  \/ \E i \in InFlight : BodyDone(i)
  \/ \E i \in InFlight, st \in TargetStatuses : FetchOk(i, st, PlainResponse, PlainBody)
  \/ \E i \in InFlight, st \in TargetStatuses, s \in BOOLEAN : WriteFail(i, st, s)
  \/ \E i \in InFlight : FetchErr(i)
  \/ \E i \in InFlight : TaskCatch(i)

SpecId == Init /\ [][NextId]_vars

\* the same program with the headers of the requests and of the target's
\* responses, and clients that close their connection
WireInputs ==
  {[method |-> "POST", path |-> AppPath, upgrade |-> "", ctype |-> "text/plain",
    body |-> "a", rid |-> NoId, cookie |-> "0xC", hdrs |-> h] :
     h \in {{"host", "content-type", "content-length"},
            {"host", "content-type", "transfer-encoding", "connection", "x-custom"}}}

TargetHeaders ==
  {PlainResponse, {"content-type", "transfer-encoding", "connection", "x-custom"}}

\* the bodies of the target's responses: JSON text, and bytes that are not UTF-8
ResponseBodies == {PlainBody, "xFF"}

NextWire ==
  \/ \E in \in WireInputs : Arrive(in, MaxWReq, MaxWCtl)
  \/ \E i \in InFlight : ClientDisconnect(i)
  \/ \E r \in InFlight, cb \in TargetBodies : TargetCallback(r, cb, MaxWReq, MaxWCtl)
  \/ \E i \in InFlight : JsonDone(i)
  \/ \E i \in InFlight : ReadDone(i)
  \/ \E i \in InFlight : BodyDone(i)
  \/ \E i \in InFlight, st \in TargetStatuses, th \in TargetHeaders, tb \in ResponseBodies :
       FetchOk(i, st, th, tb)
  \/ \E i \in InFlight, st \in TargetStatuses, s \in BOOLEAN : WriteFail(i, st, s)
  \/ \E i \in InFlight : FetchErr(i)
  \/ \E i \in InFlight : TaskCatch(i)

SpecWire == Init /\ [][NextWire]_vars

\* the same program with more requests and fewer callbacks
NextQueue ==
  \/ \E in \in AppInputs : Arrive(in, MaxQReq, MaxQCtl)
  \/ \E r \in InFlight, cb \in TargetBodies : TargetCallback(r, cb, MaxQReq, MaxQCtl)
  \/ \E i \in InFlight : JsonDone(i)
  \/ \E i \in InFlight : ReadDone(i)
  \/ \E i \in InFlight : BodyDone(i)
  \/ \E i \in InFlight, st \in TargetStatuses : FetchOk(i, st, PlainResponse, PlainBody)
  \/ \E i \in InFlight, st \in TargetStatuses, s \in BOOLEAN : WriteFail(i, st, s)
  \/ \E i \in InFlight : FetchErr(i)
  \/ \E i \in InFlight : TaskCatch(i)

SpecQueue == Init /\ [][NextQueue]_vars

\* the same program under the scheduling of the event loop: an I/O that can
\* finish does finish, and a target that is not waiting for its callback answers
NextLive ==
  \/ \E in \in AppInputs \cup CtlInputs : Arrive(in, MaxLReq, MaxLCtl)
  \/ \E r \in InFlight, cb \in TargetBodies : TargetCallback(r, cb, MaxLReq, MaxLCtl)
  \/ \E i \in InFlight : JsonDone(i)
  \/ \E i \in InFlight : ReadDone(i)
  \/ \E i \in InFlight : BodyDone(i)
  \/ \E i \in InFlight, st \in TargetStatuses : FetchOk(i, st, PlainResponse, PlainBody)
  \/ \E i \in InFlight, st \in TargetStatuses, s \in BOOLEAN : WriteFail(i, st, s)
  \/ \E i \in InFlight : FetchErr(i)
  \/ \E i \in InFlight : TaskCatch(i)

Progress ==
  \/ \E i \in InFlight : JsonDone(i)
  \/ \E i \in InFlight : ReadDone(i)
  \/ \E i \in InFlight : BodyDone(i)
  \/ \E i \in InFlight, st \in TargetStatuses : FetchOk(i, st, PlainResponse, PlainBody)
  \/ \E i \in InFlight : TaskCatch(i)

SpecLive == Init /\ [][NextLive]_vars /\ WF_vars(Progress)

\* ---- properties ----

Handlers == {i \in InFlight : rq[i].pc \in InHandler}
Started == lastRun' # lastRun       \* this step started handleQueuedRequest
Leaves(i) == i \in InFlight /\ i \notin DOMAIN rq'   \* this step answered request i
Arrived == n' = n + 1                  \* this step began with the arrival of a request
AnsweredAtOnce == Arrived /\ n' \notin DOMAIN rq'   \* and answered it before any await
\* the request that arrived in this step: in flight, or answered at once
ArrivedReq == IF n' \in DOMAIN rq' THEN rq'[n'] ELSE lastRes'

\* C1: at most one mutating request is inside the queued-request handler, in
\* every reachable state, also after a handler failed while others waited.
SingleFlight == Cardinality(Handlers) <= 1

\* C2: strict FIFO: when a request is dispatched, no request that was admitted
\* before it is still waiting.
StrictFIFO ==
  [][Started => \A k \in 1..Len(requestQueue') : requestQueue'[k] > lastRun']_vars

\* C3: a request is dispatched only when the response of every request
\* dispatched before it has been written.
SlotHeldUntilWritten ==
  [][Started => \A r \in Handlers : r \notin DOMAIN rq']_vars

\* C4: every request admitted to the queue is eventually answered, whatever
\* way the requests before it ended.
AdmittedServed ==
  \A i \in 1..MaxLReq :
    (i \in InFlight /\ rq[i].pc \in {"waiting"} \cup InHandler) ~> (i \notin InFlight)

C4Witness ==
  /\ lastRes.status = 201 /\ Len(logs) = 1
  /\ ~isProcessing
  /\ n = 3 /\ nCtl = 0
  /\ lastRun = 3 /\ InFlight = {3} /\ rq[3].pc = "body"

\* C5: when the handler fails, the catch handler answers 500 exactly if no
\* headers were sent, and processNext starts the head of the waiters if there
\* is one and clears the flag if not.
CatchReleases ==
  [][\A i \in InFlight :
       (rq[i].pc = "rejected" /\ Leaves(i)) =>
         /\ (lastRes'.status = 500) <=> ~rq[i].sent
         /\ IF Len(requestQueue) > 0
              THEN /\ requestQueue' = Tail(requestQueue)
                   /\ lastRun' = Head(requestQueue)
                   /\ rq'[Head(requestQueue)].pc = "body"
              ELSE /\ ~isProcessing'
                   /\ UNCHANGED <<requestQueue, lastRun>>]_vars

C5Witness ==
  /\ lastRes.status = 500
  /\ lastRun \in InFlight
  /\ rq[lastRun].pc = "body"
  /\ ~isProcessing

\* C6: a report-context call is never put in the queue and never takes the
\* slot, and a request whose target waits for the answer to its callback
\* completes.
NotGated ==
  \A i \in InFlight : IsReportCall(rq[i]) => rq[i].pc \in InControl

CallbackNotGated ==
  /\ []NotGated
  /\ \A r \in 1..MaxLReq :
       (r \in InFlight /\ rq[r].pc = "fetch" /\ rq[r].await \in InFlight)
         ~> (r \notin InFlight)

C6Witness ==
  \E r \in InFlight :
    /\ rq[r].pc = "fetch"
    /\ rq[r].await # 0 /\ rq[r].await \notin InFlight
    /\ lastRes.status = 200 /\ lastRes.by = "report" /\ lastRes.rid = rq[r].cb
    /\ isProcessing /\ Len(requestQueue) > 0

\* C7: the id in x-callback-url is made and its sequence created before the
\* request goes to the target, no call for an issued id is answered 404, and
\* the log entry of the request carries that id.
CallbackCorrelation ==
  [][/\ \A i \in DOMAIN rq' :
          rq'[i].pc = "fetch" =>
            /\ rq'[i].cb # NoId /\ rq'[i].cb = rq'[i].reqId
            /\ rq'[i].cb \in DOMAIN contextsMap'
     /\ lastRes'.status = 404 => lastRes'.rid \notin DOMAIN pushed'
     /\ \A i \in InFlight :
          (rq[i].pc = "fetch" /\ (Leaves(i) \/ rq'[i].pc = "rejected")) =>
            /\ Len(logs') = Len(logs) + 1
            /\ logs'[Len(logs')].requestId = rq[i].cb]_vars

C7Witness ==
  \E r \in InFlight, c \in InFlight :
    /\ rq[r].pc = "fetch"
    /\ IsReportCall(rq[c]) /\ rq[c].rid = rq[r].cb /\ rq[c].pc = "read"

\* C8: a call for a known id, within the size cap, made when no other call for
\* that id is in flight, appends its payload at the end of the sequence that
\* GET /_chopin/logs returns.
SequentialAppend ==
  [][\A i \in InFlight :
       (/\ IsReportCall(rq[i]) /\ Leaves(i)
        /\ rq[i].rid \in DOMAIN contextsMap
        /\ rq[i].rid \notin overlapped
        /\ Size(rq[i].body) <= ReportLimit) =>
         contextsMap'[rq[i].rid] = Append(contextsMap[rq[i].rid], rq[i].body)]_vars

\* C9: the order of the strings of a sequence is the order in which the calls
\* that appended them were invoked.
InvocationOrder ==
  \A id \in DOMAIN pushed :
    \A j, k \in 1..Len(pushed[id]) : j < k => pushed[id][j].req < pushed[id][k].req

\* C10: whatever its content type, a call for a known id within the size cap
\* succeeds and stores exactly its raw body.
OpaqueBodies ==
  [][\A i \in InFlight :
       (/\ IsReportCall(rq[i]) /\ Leaves(i)
        /\ rq[i].rid \in DOMAIN contextsMap
        /\ Size(rq[i].body) <= ReportLimit) =>
         /\ lastRes'.status = 200
         /\ Len(contextsMap'[rq[i].rid]) = Len(contextsMap[rq[i].rid]) + 1
         /\ contextsMap'[rq[i].rid][Len(contextsMap'[rq[i].rid])] = rq[i].body]_vars

\* the request that was given this id has been answered
Completed(id) == id \in DOMAIN contextsMap /\ ~\E r \in InFlight : rq[r].reqId = id

\* C11: a context sequence is never removed and never loses an element, and a
\* call for the id of a request that has completed is answered 200 and its
\* string is the last of the contexts that GET /_chopin/logs then returns.
LateWrites ==
  [][/\ \A id \in DOMAIN contextsMap :
          /\ id \in DOMAIN contextsMap'
          /\ Len(contextsMap'[id]) >= Len(contextsMap[id])
          /\ SubSeq(contextsMap'[id], 1, Len(contextsMap[id])) = contextsMap[id]
     /\ \A i \in InFlight :
          (/\ IsReportCall(rq[i]) /\ Leaves(i)
           /\ Completed(rq[i].rid)
           /\ Size(rq[i].body) <= ReportLimit) =>
            /\ lastRes'.status = 200
            /\ \E k \in 1..Len(GetLogs') :
                 /\ GetLogs'[k].entry.requestId = rq[i].rid
                 /\ GetLogs'[k].contexts =
                      Append(contextsMap[rq[i].rid], ToUtf8(rq[i].body))]_vars

\* C12: a call without requestId is answered 400 and a call with an id that is
\* not a key of contextsMap is answered 404, and neither changes a context
\* sequence, the log list or the state of the queue.
ReportErrors ==
  [][LET RejectedCall(x, st) ==
           (x.rid = NoId \/ x.rid \notin DOMAIN contextsMap) =>
              /\ st = (IF x.rid = NoId THEN 400 ELSE 404)
              /\ UNCHANGED <<contextsMap, logs, isProcessing, requestQueue>>
     IN /\ (AnsweredAtOnce /\ IsReportCall(lastRes')) =>
             RejectedCall(lastRes', lastRes'.status)
        /\ \A i \in InFlight :
             (IsReportCall(rq[i]) /\ Leaves(i)) =>
               RejectedCall(rq[i], lastRes'.status)]_vars


\* C13: when the fetch fails the client gets 502, the entry of the request is
\* appended with responseError and without a response, and processNext starts
\* the head of the waiters or clears the flag.
BadGateway ==
  [][\A i \in InFlight :
       (rq[i].pc = "fetch" /\ Leaves(i)) =>
         /\ Len(logs') = Len(logs) + 1
         /\ logs'[Len(logs')].responseError <=> (lastRes'.status = 502)
         /\ (lastRes'.status = 502) =>
              /\ logs' = Append(logs, [requestId |-> rq[i].reqId,
                                        method |-> rq[i].method, url |-> rq[i].path,
                                        headers |-> [cookie |-> rq[i].cookie,
                                                     authorization |-> rq[i].auth,
                                                     xaddr |-> rq[i].xaddr],
                                        body |-> ToUtf8(rq[i].body), status |-> 0,
                                        responseError |-> TRUE, req |-> i,
                                        rbody |-> ""])
              /\ IF Len(requestQueue) > 0
                   THEN /\ requestQueue' = Tail(requestQueue)
                        /\ lastRun' = Head(requestQueue)
                        /\ rq'[Head(requestQueue)].pc = "body"
                   ELSE /\ ~isProcessing'
                        /\ UNCHANGED <<requestQueue, lastRun>>]_vars

C13Witness ==
  /\ lastRes.status = 502 /\ lastRes.by = "queue"
  /\ Len(logs) = 1 /\ logs[1].responseError /\ logs[1].status = 0
  /\ n = 3 /\ lastRun = 2 /\ rq[2].pc = "body" /\ requestQueue = <<3>> /\ isProcessing

\* C14: the entries of the log list have pairwise distinct requestIds, and
\* each of these ids is a key of contextsMap.
UniqueLogIds ==
  /\ \A j, k \in 1..Len(logs) : logs[j].requestId = logs[k].requestId => j = k
  /\ \A k \in 1..Len(logs) : logs[k].requestId \in DOMAIN contextsMap

C14Witness ==
  /\ Len(logs) = 2
  /\ \E k \in 1..2 : logs[k].responseError
  /\ \E k \in 1..2 : ~logs[k].responseError
  /\ \E id \in DOMAIN contextsMap : Len(contextsMap[id]) > 0

\* C15: while a request is at the target, its entry is already in the list
\* that GET /_chopin/logs returns.
LoggedBeforeForward ==
  \A i \in InFlight :
    rq[i].pc = "fetch" =>
      \E k \in 1..Len(GetLogs) : GetLogs[k].entry.requestId = rq[i].reqId

\* C16: the entries of the log list are in the order in which their requests
\* were admitted to the queue (a request is admitted in the step of its arrival).
LogOrder ==
  \A j, k \in 1..Len(GetLogs) :
    j < k => GetLogs[j].entry.req < GetLogs[k].entry.req

\* C17: a request whose method is not POST, PUT, PATCH or DELETE is answered
\* in the step of its arrival, by the proxy when its path is not under
\* /_chopin, and leaves the flag, the waiters, the log list and contextsMap as
\* they were, also while the slot is held and requests are waiting.
PassThrough ==
  [][(Arrived /\ ArrivedReq.method \notin queueMethods) =>
       /\ AnsweredAtOnce
       /\ ~IsChopinPath(ArrivedReq.path) => lastRes'.by = "proxy"
       /\ UNCHANGED <<isProcessing, requestQueue, logs, contextsMap, rq, lastRun>>]_vars

C17Witness ==
  /\ lastRes.by = "proxy" /\ lastRes.method = "GET" /\ lastRes.upgrade = ""
  /\ n = 3 /\ InFlight = {1, 2}
  /\ isProcessing /\ rq[1].pc = "fetch" /\ requestQueue = <<2>>

\* C18: a request with Upgrade: websocket, in any case of the letters and with
\* any method, goes to the proxy in the step of its arrival: it is not put in
\* the queue, does not take the slot and gets no log entry.
UpgradeBypass ==
  [][(/\ Arrived
      /\ ArrivedReq.upgrade \in {"websocket", "WebSocket", "WEBSOCKET"}
      /\ ~IsChopinPath(ArrivedReq.path)) =>
       /\ AnsweredAtOnce /\ lastRes'.by = "proxy"
       /\ UNCHANGED <<isProcessing, requestQueue, logs, contextsMap, rq, lastRun>>]_vars

C18Witness ==
  /\ lastRes.by = "proxy" /\ lastRes.method = "POST" /\ lastRes.upgrade = "WebSocket"
  /\ n = 3 /\ InFlight = {1, 2}
  /\ isProcessing /\ rq[1].pc = "fetch" /\ requestQueue = <<2>> /\ logs = <<>>

\* C19: no request for a path under /_chopin is in the queue or inside the
\* queued-request handler, and none is answered by the proxy, by the
\* queued-request handler or by its catch handler.
ControlNeverForwarded ==
  /\ \A i \in InFlight :
       IsChopinPath(rq[i].path) => rq[i].pc \notin {"waiting"} \cup InHandler
  /\ lastRes.by \in {"proxy", "queue", "catch"} => ~IsChopinPath(lastRes.path)

\* C20: a request that carries a dev-address cookie and a bearer token that
\* verifies with a sub claim goes to the target, and into its log entry, with
\* the value of the cookie as x-address.
CookieWins ==
  /\ \A i \in InFlight :
       (rq[i].pc = "fetch" /\ rq[i].cookie # "" /\ BearerSub(rq[i].auth) # "") =>
         rq[i].xaddr = rq[i].cookie
  /\ \A k \in 1..Len(logs) :
       (logs[k].headers.cookie # "" /\ BearerSub(logs[k].headers.authorization) # "") =>
         logs[k].headers.xaddr = logs[k].headers.cookie

\* C21: a request with neither a dev-address cookie nor a valid token reaches
\* the target without x-address, and the x-address that reaches the target does
\* not depend on the x-address the client sent.
SoleSource ==
  /\ \A i \in InFlight :
       (rq[i].pc = "fetch" /\ rq[i].cookie = "" /\ BearerSub(rq[i].auth) = "") =>
         rq[i].xaddr = ""
  /\ \A i, j \in InFlight :
       (rq[i].cookie = rq[j].cookie /\ rq[i].auth = rq[j].auth) =>
         rq[i].xaddr = rq[j].xaddr

\* C22: GET /_chopin/me answers 200 with the address that authMiddleware puts
\* in x-address for a request with the same cookie and Authorization header,
\* and with null when authMiddleware sets none.
MeAgrees ==
  lastRes.by = "me" =>
    /\ lastRes.status = 200
    /\ lastRes.address =
         authMiddleware([cookie |-> lastRes.cookie, auth |-> lastRes.auth, xaddr |-> ""])

\* C23: a request with a bearer token that cannot be decoded, that declares
\* another algorithm than none or that has no sub claim is not rejected: it is
\* queued, dispatched or answered by the proxy or the router, with the
\* x-address it would have without the Authorization header.
BadTokenIgnored ==
  [][LET a == ArrivedReq.auth
         bad == /\ a # <<>> /\ a[1] = "Bearer"
                /\ (a[2].form # "jwt" \/ a[2].alg # "none" \/ a[2].sub = "")
     IN (Arrived /\ bad) =>
          /\ ArrivedReq.xaddr =
               authMiddleware([cookie |-> ArrivedReq.cookie, auth |-> <<>>,
                               xaddr |-> ArrivedReq.xin])
          /\ IF AnsweredAtOnce
               THEN lastRes'.by \in {"proxy", "me", "control"}
               ELSE rq'[n'].pc \in {"body", "waiting"}]_vars

C23Witness ==
  /\ \E i \in InFlight :
       /\ rq[i].auth = <<"Bearer", HsToken>> /\ rq[i].cookie = "0xC"
       /\ rq[i].pc = "fetch" /\ rq[i].xaddr = "0xC"
  /\ lastRes.by = "proxy" /\ lastRes.auth = <<"Bearer", Garbage>> /\ lastRes.xaddr = lastRes.xin

IssuedLowercase ==
  lastRes.by = "login" =>
    /\ lastRes.address \in {"0xaa", "0x11", "0x22"}
    /\ lastRes.setCookie \in {"0xaa", "0x11", "0x22"}
    /\ lastRes.token.sub \in {"0xaa", "0x11", "0x22"}

\* C26: GET /_chopin/logout answers 302 with Location / and clears the
\* dev-address cookie; from then until the next login, a request of the browser
\* that carries no bearer token is forwarded without x-address, and GET
\* /_chopin/me answers it with a null address.
LogoutClears ==
  [][/\ (Arrived /\ lastRes'.by = "logout" /\ AnsweredAtOnce /\ rq' = rq) =>
          /\ lastRes'.status = 302
          /\ lastRes'.location = "/"
          /\ lastRes'.setCookie = "clear"
          /\ client'.jar = ""
          /\ client'.token = client.token
     /\ (Arrived /\ client.jar = "" /\ client.token # NoToken /\ client' = client
          /\ ArrivedReq.auth = <<>>) =>
          /\ ArrivedReq.cookie = ""
          /\ ArrivedReq.xaddr = ""
          /\ ArrivedReq.path = MePath =>
               (AnsweredAtOnce /\ lastRes'.by = "me" /\ lastRes'.status = 200
                /\ lastRes'.address = "")
     /\ (client.token # NoToken /\ client'.jar = "" /\ client.jar # "") =>
          lastRes'.by = "logout"]_vars

C26Witness ==
  /\ client.jar = "" /\ client.token.sub = "0xaa"
  /\ n = 4 /\ InFlight = {3}
  /\ rq[3].pc = "fetch" /\ rq[3].cookie = "" /\ rq[3].auth = <<>> /\ rq[3].xaddr = ""
  /\ lastRes.by = "me" /\ lastRes.address = "" /\ lastRes.cookie = ""
  /\ lastRes.auth = <<>>

\* C27: a dispatched request whose body is over the 2 MiB cap is answered
\* with 413, nothing of it is forwarded or logged, and the slot is released:
\* the next waiter is dispatched.
QueueOverflow ==
  [][\A i \in InFlight :
       (rq[i].pc = "rejected" /\ Size(rq[i].body) > QueueLimit /\ Leaves(i)) =>
         /\ lastRes'.status = 413
         /\ rq[i].reqId = NoId /\ logs' = logs /\ contextsMap' = contextsMap
         /\ IF requestQueue = <<>>
              THEN ~isProcessing'
              ELSE /\ requestQueue' = Tail(requestQueue)
                   /\ rq'[Head(requestQueue)].pc = "body"]_vars

\* C28: a report-context call for a known requestId whose body is over the
\* 1 MiB cap is answered with 413, and no context sequence changes.
ReportOverflow ==
  [][\A i \in InFlight :
       (IsReportCall(rq[i]) /\ rq[i].pc = "read" /\ rq[i].rid \in DOMAIN contextsMap
        /\ Size(rq[i].body) > ReportLimit /\ Leaves(i)) =>
         /\ lastRes'.status = 413
         /\ contextsMap' = contextsMap]_vars

\* C29: the headers sent to the target are the headers of the request behind
\* authMiddleware without host, content-length, transfer-encoding and
\* connection, with x-callback-url; the headers copied to the client are the
\* headers of the target's response without those four; every other header
\* passes in both directions.
HopByHop ==
  [][/\ \A i \in InFlight :
          (rq[i].pc = "body" /\ i \in DOMAIN rq' /\ rq'[i].pc = "fetch") =>
            rq'[i].fwd =
              (ReqHeaders(rq[i]) \ {"host", "content-length", "transfer-encoding",
                                    "connection"}) \cup {"x-callback-url"}
     /\ \A i \in InFlight :
          (rq[i].pc = "fetch" /\ Leaves(i) /\ lastRes'.status \in TargetStatuses) =>
            lastRes'.headers =
              lastRes'.theaders \ {"host", "content-length", "transfer-encoding",
                                   "connection"}]_vars

\* C30: when the client of the request in flight closes its connection
\* after the request was forwarded, nothing is aborted: the request stays with
\* the target, and when the target answers or the fetch fails its entry is
\* appended to the log with the response or the responseError, the slot is
\* released and the next waiter is dispatched.
DisconnectCompletes ==
  [][\A i \in InFlight :
       /\ (rq[i].pc = "fetch" /\ ~rq[i].gone
            /\ (IF i \in DOMAIN rq' THEN rq'[i].gone ELSE FALSE)) =>
            /\ rq' = [rq EXCEPT ![i].gone = TRUE]
            /\ UNCHANGED <<logs, contextsMap, isProcessing, requestQueue, lastRun>>
       /\ (rq[i].pc = "fetch" /\ rq[i].gone
            /\ (IF i \in DOMAIN rq' THEN rq'[i].pc # "fetch" ELSE TRUE)) =>
            /\ Len(logs') = Len(logs) + 1
            /\ logs'[Len(logs')].requestId = rq[i].reqId
            /\ logs'[Len(logs')].req = i
            /\ logs'[Len(logs')].responseError \/ logs'[Len(logs')].status \in TargetStatuses
       /\ (rq[i].pc \in {"fetch", "rejected"} /\ rq[i].gone /\ Leaves(i)) =>
            /\ lastRes'.lost
            /\ IF requestQueue = <<>>
                 THEN ~isProcessing' /\ requestQueue' = <<>>
                 ELSE /\ requestQueue' = Tail(requestQueue)
                      /\ lastRun' = Head(requestQueue)
                      /\ rq'[Head(requestQueue)].pc = "body"]_vars

C30Witness ==
  /\ Len(logs) = 1 /\ logs[1].req = 1 /\ ~logs[1].responseError /\ logs[1].status = 201
  /\ lastRes.by = "queue" /\ lastRes.lost /\ lastRes.status = 201
  /\ 1 \notin InFlight /\ 2 \in InFlight /\ rq[2].pc = "body" /\ lastRun = 2
  /\ requestQueue = <<3>>

\* C31: the proxy listens on the first argument when there is one, else on the
\* proxyPort of the config file, else on 4000, and the target port is the second
\* argument, else targetPort, else 3000; a first token that is no number and
\* does not begin with '-' is a subcommand, and one that is not init ends the
\* process with a code other than 0, before the config is loaded, the target
\* spawned or the proxy started.
CommandLine ==
  LET a == proc.argv
      Value(t) == CASE t = "4001" -> 4001 [] t = "3001" -> 3001 [] t = "0" -> 0
                    [] t = "1e3" -> 1000 [] OTHER -> 0
      Number(t) == t \in {"4001", "3001", "0", "1e3"}
      Word(t) == t \in {"init", "serve", "constructor"}
      Configured(x, dflt) == IF x.k = "num" THEN x.v ELSE dflt
  IN /\ (proc.pc = "listening" /\ (Len(a) = 0 \/ Number(a[1]))) =>
          proc.proxyPort.v =
            IF Len(a) > 0 THEN Value(a[1])
            ELSE Configured(ConfigPort(proc.config, "proxy"), 4000)
     /\ (proc.pc = "listening" /\ (Len(a) = 0 \/ Number(a[1]))
          /\ (Len(a) < 2 \/ Number(a[2]))) =>
          proc.targetPort.v =
            IF Len(a) > 1 THEN Value(a[2])
            ELSE Configured(ConfigPort(proc.config, "target"), 3000)
     /\ (Len(a) > 0 /\ Word(a[1]) /\ proc.pc # "start") =>
          /\ proc.pc = "exit" /\ ~proc.spawned
          /\ a[1] # "init" => proc.code # 0

\* C32: when chopin.config.json is there and cannot be parsed, has a version
\* that is not compatible, or breaks the schema (no command, a port outside
\* 1..65535 or not a number, a field that is not known), a run of the proxy
\* (a command line without subcommand) ends with a code other than 0 at the
\* load of the config: the target is never spawned and the proxy never listens.
ConfigFatal ==
  LET f == proc.file
      badPort(x) == x.k = "str" \/ (x.k = "num" /\ (x.v < 1 \/ x.v > 65535))
      bad == \/ f.kind = "garbage"
             \/ /\ f.kind = "json"
                /\ \/ f.version \in {"0.2.0", "abc"}
                   \/ f.command \in {"<absent>", ""}
                   \/ badPort(f.proxyPort) \/ badPort(f.targetPort)
                   \/ f.extra
  IN (bad /\ proc.pc \notin {"start", "load"} /\ proc.args.command = "") =>
       /\ proc.pc = "exit" /\ proc.code # 0
       /\ ~proc.spawned
       /\ proc.config = NoFile /\ proc.proxyPort = Null /\ proc.targetPort = Null

C32Witness ==
  /\ proc.pc = "exit" /\ proc.code = 1 /\ ~proc.spawned
  /\ proc.file.kind = "json" /\ proc.file.targetPort = Num(65536)
  /\ proc.argv = <<"4001", "3001">> /\ proc.args.proxyPort = Num(4001)

\* C33: isProcessing is true whenever a request is inside the handler and
\* whenever a request waits; a release with waiters takes the head, starts it
\* and leaves the flag true; the flag goes from true to false only at a release
\* that finds no waiter.
FlagConsistent ==
  [][/\ Handlers' # {} => isProcessing'
     /\ requestQueue' # <<>> => isProcessing'
     /\ \A i \in InFlight :
          (rq[i].pc \in InHandler /\ Leaves(i) /\ requestQueue # <<>>) =>
            /\ requestQueue' = Tail(requestQueue)
            /\ rq'[Head(requestQueue)].pc = "body"
            /\ isProcessing'
     /\ (isProcessing /\ ~isProcessing') =>
          (requestQueue = <<>> /\ \E i \in Handlers : Leaves(i))]_vars

\* C34: processNext runs once for a dispatched request, at the step that ends
\* the request (success, 502 or the catch handler): a request that leaves the
\* handler takes exactly one waiter off the queue or clears the flag, no waiter
\* is taken off and the flag is not cleared at any other step, and a request
\* that stays in the handler, reading its body or waiting for the target,
\* leaves flag and queue as they are.
ReleasedOnce ==
  [][/\ \A i \in Handlers : Leaves(i) =>
          IF requestQueue # <<>>
            THEN /\ requestQueue' = Tail(requestQueue)
                 /\ lastRun' = Head(requestQueue)
            ELSE ~isProcessing' /\ requestQueue' = <<>>
     /\ (Len(requestQueue') < Len(requestQueue) \/ (isProcessing /\ ~isProcessing')) =>
          Cardinality({i \in Handlers : Leaves(i)}) = 1
     /\ \A i \in Handlers :
          (i \in DOMAIN rq' /\ ~\E j \in Handlers : Leaves(j)) =>
            /\ isProcessing => isProcessing'
            /\ \A k \in 1..Len(requestQueue) :
                 rq'[requestQueue[k]].pc = "waiting"
            /\ \/ requestQueue' = requestQueue
               \/ requestQueue' = Append(requestQueue, n')]_vars

C34Witness ==
  /\ Len(logs) = 1 /\ logs[1].responseError /\ logs[1].req = 1
  /\ lastRes.by = "catch" /\ lastRes.status = 500
  /\ InFlight = {3} /\ lastRun = 3 /\ rq[3].pc = "body" /\ requestQueue = <<>>

\* C35: a request whose handling fails (the body read rejects, the fetch
\* fails, or writing the response throws) is answered once, and when it has
\* been answered the log holds an entry of that request that records an error.
ErrorsCaptured ==
  [][\A i \in Handlers :
       (Leaves(i) /\ (rq[i].pc = "rejected"
                      \/ (rq[i].pc = "fetch" /\ lastRes'.status = 502))) =>
         /\ lastRes'.no = i /\ lastRes'.by \in {"queue", "catch"}
         /\ \E k \in 1..Len(logs') : logs'[k].req = i /\ logs'[k].responseError]_vars

\* C36: when the target answers request R, the entry of R with the status
\* and the body of that answer is appended to the log before anything is written
\* to the client; the client of R then gets the status and the body that the
\* target returned for R, the entry holds that same status and body, and the
\* slot is released in the step that writes the response, not before.
ResponseCorrelation ==
  [][\A i \in Handlers :
       /\ (rq[i].pc = "fetch" /\ Leaves(i) /\ lastRes'.status # 502) =>
            LET e == logs'[Len(logs')] IN
            /\ logs' = Append(logs, e)
            /\ e.req = i /\ e.requestId = rq[i].reqId /\ ~e.responseError
            /\ lastRes'.no = i
            /\ lastRes'.status = lastRes'.tstatus /\ lastRes'.body = lastRes'.tbody
            /\ e.status = lastRes'.tstatus /\ e.rbody = lastRes'.tbody
       /\ (rq[i].pc = "fetch"
            /\ (IF i \in DOMAIN rq' THEN rq'[i].pc = "rejected" ELSE FALSE)) =>
            /\ Len(logs') = Len(logs) + 1
            /\ logs'[Len(logs')].req = i /\ ~logs'[Len(logs')].responseError
            /\ UNCHANGED <<lastRes, isProcessing, requestQueue, lastRun>>]_vars

\* C37: the log list only grows at its end: no entry is removed, moved or
\* changed; every entry has either a response or a responseError, never both
\* and never neither; of what GET /_chopin/logs returns for an entry only the
\* contexts change between two reads.
LogImmutable ==
  [][/\ Len(logs') \in {Len(logs), Len(logs) + 1}
     /\ SubSeq(logs', 1, Len(logs)) = logs
     /\ \A k \in 1..Len(logs) : GetLogs'[k].entry = GetLogs[k].entry
     /\ \A k \in 1..Len(logs') : logs'[k].responseError <=> (logs'[k].status = 0)]_vars

C37Witness ==
  /\ Len(logs) = 2 /\ InFlight = {}
  /\ logs[1].req = 1 /\ logs[1].responseError
  /\ logs[2].req = 2 /\ logs[2].status = 201
  /\ GetLogs[1].contexts = <<"a">> /\ GetLogs[2].contexts = <<>>
  /\ pushed[logs[1].requestId][1].req = 3

\* C38: a report-context call that is answered 200 appends one element at the
\* end of the sequence of its requestId and changes nothing else: the other
\* sequences, the elements the sequence had, the log list, isProcessing and the
\* queue of waiters stay as they were.
ReportFrame ==
  [][\A i \in InFlight :
       (IsReportCall(rq[i]) /\ Leaves(i) /\ lastRes'.status = 200) =>
         LET id == rq[i].rid IN
         /\ id \in DOMAIN contextsMap
         /\ DOMAIN contextsMap' = DOMAIN contextsMap
         /\ \A o \in DOMAIN contextsMap \ {id} : contextsMap'[o] = contextsMap[o]
         /\ Len(contextsMap'[id]) = Len(contextsMap[id]) + 1
         /\ SubSeq(contextsMap'[id], 1, Len(contextsMap[id])) = contextsMap[id]
         /\ UNCHANGED <<logs, isProcessing, requestQueue, lastRun>>
         /\ \A j \in InFlight \ {i} : j \in DOMAIN rq' /\ rq'[j] = rq[j]]_vars

C38Witness ==
  /\ lastRes.by = "report" /\ lastRes.status = 200 /\ lastRes.no = 3
  /\ InFlight = {1} /\ rq[1].pc = "fetch" /\ isProcessing
  /\ contextsMap[rq[1].reqId] = <<"uFFFD", "a">>
  /\ logs = <<>>

\* C39: a task in the queue of waiters is started once, at the release that
\* finds it at the head: until then it stays in the queue, once, and its request
\* has read no body, has no requestId, no context sequence, no log entry and
\* nothing sent to the target; after its start it never waits again.
DispatchedOnce ==
  [][/\ \A k \in 1..Len(requestQueue') :
          LET w == requestQueue'[k] IN
          /\ w \in DOMAIN rq' /\ rq'[w].pc = "waiting"
          /\ \A j \in 1..Len(requestQueue') : requestQueue'[j] = w => j = k
          /\ rq'[w].reqId = NoId /\ rq'[w].cb = NoId /\ rq'[w].fwd = {}
          /\ \A e \in 1..Len(logs') : logs'[e].req # w
     /\ \A i \in DOMAIN rq' :
          rq'[i].pc = "waiting" => \E k \in 1..Len(requestQueue') : requestQueue'[k] = i
     /\ \A i \in InFlight :
          /\ (rq[i].pc = "waiting" /\ (IF i \in DOMAIN rq' THEN rq'[i].pc # "waiting"
                                                          ELSE TRUE)) =>
               /\ i = Head(requestQueue) /\ requestQueue' = Tail(requestQueue)
               /\ i \in DOMAIN rq' /\ rq'[i].pc = "body" /\ lastRun' = i
               /\ \E h \in Handlers : Leaves(h)
          /\ (rq[i].pc # "waiting" /\ i \in DOMAIN rq') => rq'[i].pc # "waiting"]_vars

C39Witness ==
  /\ Len(logs) = 1 /\ logs[1].req = 1
  /\ lastRun = 2 /\ requestQueue = <<3, 4>>
  /\ {2, 3, 4} \subseteq DOMAIN rq
  /\ rq[2].pc = "fetch" /\ rq[2].reqId # NoId
  /\ rq[3].pc = "waiting" /\ rq[3].reqId = NoId
  /\ rq[4].pc = "waiting"

====
